---------------------------- MODULE Spec2Model ----------------------------
(***************************************************************************)
(* SwissDraw: the eligibility rule (canPlay), the opponent finder          *)
(* (getEligibleOpponents and its ranked variants), the match recorder      *)
(* (recordMatch) and the pairing generators (getMatchRecommendations,      *)
(* getOptimizedMatchRecommendations).                                      *)
(*                                                                         *)
(* matchHistory is the client store of lib/matches; studentsData is the    *)
(* roster held by the /api/students server.                                *)
(*                                                                         *)
(* Spec is the store used by one caller at a time: every call runs to its  *)
(* return before the next begins, so an action is a whole call.  GenSpec   *)
(* is round generation running concurrently with recordMatch: there an     *)
(* async function is split into one action per await, a fetch reads the    *)
(* server state in the step that issues it, and the code after the await   *)
(* runs in a later step.                                                   *)
(***************************************************************************)
EXTENDS Integers, Sequences, FiniteSets, TLC

\* ------------------------------------------------------------------ bounds
\* Most records the match history holds in Spec (the store and its queries).
MaxMatches == 4
\* WriteSpec: the clock value up to which recordMatch is called, so at most
\* this many records are ever created.
WriteMaxClock == 6
\* SyncSpec: the clock value up to which recordMatch and the page load are
\* called.
SyncMaxClock == 5
\* ReadSpec: the matches recorded between the queries.
ReadMaxMatches == 3
\* Most recordMatch calls of one session of GenSpec (round generation).
GenMaxMatches == 1

\* ------------------------------------------------------- program constants
\* canPlay: fewer than this many head-to-head records is always eligible.
SeriesLength == 3
\* canPlay: wins that make a series of SeriesLength a best-of-three decider.
DeciderWins == 2
\* The margin every operation defaults to.
DefaultMargin == 1
\* The margin input of the recommendations page: min and max.
MinMargin == 0
UiMaxMargin == 10

\* ------------------------------------------------------------------ roster
\* The ids of the roster, in the order of the server's studentsData array:
\* three students in Spec, four in GenSpec.
IdOrder == <<"s1", "s2", "s3">>
GenIdOrder == <<"s1", "s2", "s3", "s4">>
\* Names, as their rank under String.localeCompare: the roster is not in
\* name order ("s1" comes after "s2" and "s3").
NameOf == [s1 |-> 3, s2 |-> 1, s3 |-> 2, s4 |-> 4]
\* The margins a caller passes.
Margins == {MinMargin, DefaultMargin, UiMaxMargin}
\* The limits a caller of getOpponentRecommendations passes.
Limits == 1..2
\* Names of which two are the same: nothing keeps two students from having
\* one name ("s1" and "s2" here).
SameNameOf == [s1 |-> 1, s2 |-> 1, s3 |-> 2]
\* A margin below zero, which the number input lets a user type, and the
\* margins with it.
NegativeMargin == -1
AnyMargins == Margins \cup {NegativeMargin}
\* An id no student of the roster has.
MissingId == "s9"

VARIABLES
    matchHistory,   \* lib/matches: the writable store, a sequence of Match
    studentsData,   \* api/students: the roster, a sequence of Student
    rec,            \* the recordMatch call in flight (GenSpec)
    gen,            \* the round generation in flight (GenSpec): its locals
    ret,            \* the value returned by the call that completed in this step
    now,            \* Date.now() at the next recordMatch, in steps of the clock
    matchesData     \* api/matches: the server's log, a sequence of matches

vars == <<matchHistory, studentsData, rec, gen, ret, now, matchesData>>

Abs(x) == IF x < 0 THEN -x ELSE x

NoRet == [op |-> "none"]
\* calls counts the recordMatch calls of the session so far.
IdleRec(calls) == [pc |-> "idle", calls |-> calls]
IdleGen == [pc |-> "idle"]

\* Array.prototype.find over the roster: the first student with that id.
hasStudent(students, id) == \E i \in 1..Len(students) : students[i].id = id
findStudent(students, id) ==
    students[CHOOSE i \in 1..Len(students) :
                /\ students[i].id = id
                /\ \A j \in 1..(i - 1) : students[j].id # id]

\* ---------------------------------------------------------------- canPlay
\* Mutant: the filter matches one orientation of the pair only.
getMatchesBetweenStudents_oneWay(studentA, studentB, matches) ==
    SelectSeq(matches, LAMBDA match :
        match.playerA = studentA /\ match.playerB = studentB)

getMatchesBetweenStudents(studentA, studentB, matches) ==
    SelectSeq(matches, LAMBDA match :
        \/ (match.playerA = studentA /\ match.playerB = studentB)
        \/ (match.playerA = studentB /\ match.playerB = studentA))

winsOf(student, matches) ==
    Len(SelectSeq(matches, LAMBDA match : match.winner = student))

\* Mutant: the series limit is off by one (length <= 3 is always eligible).
canPlay_offByOne(studentA, studentB, matches) ==
    LET matchesBetweenPlayers == getMatchesBetweenStudents(studentA, studentB, matches)
    IN  Len(matchesBetweenPlayers) <= SeriesLength

canPlay(studentA, studentB, matches) ==
    LET matchesBetweenPlayers == getMatchesBetweenStudents(studentA, studentB, matches)
        studentAWins == winsOf(studentA, matchesBetweenPlayers)
        studentBWins == winsOf(studentB, matchesBetweenPlayers)
    IN  IF Len(matchesBetweenPlayers) < SeriesLength THEN TRUE
        ELSE IF /\ Len(matchesBetweenPlayers) = SeriesLength
                /\ (studentAWins = DeciderWins \/ studentBWins = DeciderWins)
             THEN TRUE
             ELSE FALSE

\* ------------------------------------------------------- opponent finder
\* The MatchResult getHeadToHead makes of a Match.
matchResult(match) ==
    [id |-> match.id, playerA |-> match.playerA, playerB |-> match.playerB,
     winner |-> match.winner, loser |-> match.loser, date |-> match.date]

\* Mutant: the results are returned last first.
getHeadToHead_reversed(studentA, studentB, matches) ==
    LET between == getMatchesBetweenStudents(studentA, studentB, matches)
    IN  [i \in 1..Len(between) |-> matchResult(between[Len(between) + 1 - i])]
getHeadToHead(studentA, studentB, matches) ==
    LET between == getMatchesBetweenStudents(studentA, studentB, matches)
    IN  [i \in 1..Len(between) |-> matchResult(between[i])]

\* Mutant: any series of three allows the rematch, whoever won.
canHaveBestOfThreeRematch_anyThree(studentA, studentB, matches) ==
    Len(getHeadToHead(studentA, studentB, matches)) = SeriesLength

canHaveBestOfThreeRematch(studentA, studentB, matches) ==
    LET headToHead == getHeadToHead(studentA, studentB, matches)
    IN  IF Len(headToHead) # SeriesLength THEN FALSE
        ELSE \/ winsOf(studentA, headToHead) = DeciderWins
             \/ winsOf(studentB, headToHead) = DeciderWins

isScoreWithinMargin(scoreA, scoreB, margin) == Abs(scoreA - scoreB) <= margin

\* The filter callback of getEligibleOpponents.
isEligibleOpponent(targetStudent, opponent, margin, matches) ==
    IF opponent.id = targetStudent.id THEN FALSE
    ELSE IF ~isScoreWithinMargin(targetStudent.score, opponent.score, margin) THEN FALSE
    ELSE IF ~canPlay(targetStudent.id, opponent.id, matches)
         THEN IF Len(getHeadToHead(targetStudent.id, opponent.id, matches)) = SeriesLength
              THEN canHaveBestOfThreeRematch(targetStudent.id, opponent.id, matches)
              ELSE FALSE
         ELSE TRUE

\* Mutant: a target that is not in the roster is not noticed, and nobody is
\* filtered out.
getEligibleOpponents_noTargetCheck(studentId, margin, students, matches) ==
    IF ~hasStudent(students, studentId) THEN students
    ELSE SelectSeq(students, LAMBDA opponent :
            isEligibleOpponent(findStudent(students, studentId), opponent, margin, matches))

\* getEligibleOpponents after its await: students is the fetched roster,
\* matches the store as the filter reads it.
getEligibleOpponents(studentId, margin, students, matches) ==
    IF ~hasStudent(students, studentId) THEN <<>>
    ELSE SelectSeq(students, LAMBDA opponent :
            isEligibleOpponent(findStudent(students, studentId), opponent, margin, matches))

\* -------------------------------------------------- ranked opponent finder
\* Array.prototype.sort is stable: an element's place is one more than the
\* number of elements the comparator puts before it, ties keeping array order.
\* compared[j][i] is what the comparator returns for (array[j], array[i]).
stableSort(array, compared) ==
    LET place(i) == 1 + Cardinality({j \in 1..Len(array) :
                            \/ compared[j][i] < 0
                            \/ (compared[j][i] = 0 /\ j < i)})
    IN  [k \in 1..Len(array) |-> array[CHOOSE i \in 1..Len(array) : place(i) = k]]

\* The comparator of getEligibleOpponentsWithDetails.
compareDetails(a, b) ==
    IF a.scoreDifference # b.scoreDifference
    THEN a.scoreDifference - b.scoreDifference
    ELSE a.matchCount - b.matchCount

\* getEligibleOpponentsWithDetails after its awaits: students is the roster
\* its own getStudents fetched (the target's score), eligibleOpponents what
\* getEligibleOpponents returned, matches the store as the map reads it.
getEligibleOpponentsWithDetails(studentId, students, eligibleOpponents, matches) ==
    IF ~hasStudent(students, studentId) THEN <<>>
    ELSE LET details == [i \in 1..Len(eligibleOpponents) |->
                [student |-> eligibleOpponents[i],
                 matchCount |-> Len(getHeadToHead(studentId, eligibleOpponents[i].id, matches)),
                 scoreDifference |-> Abs(findStudent(students, studentId).score
                                         - eligibleOpponents[i].score)]]
         IN  stableSort(details,
                        [a \in 1..Len(details) |-> [b \in 1..Len(details) |->
                            compareDetails(details[a], details[b])]])

\* getBestOpponentRecommendation over the details; "null" stands for null.
getBestOpponentRecommendation(details) ==
    IF Len(details) > 0 THEN details[1].student ELSE "null"

\* getOpponentRecommendations over the details: slice(0, limit).map(...)
getOpponentRecommendations(details, limit) ==
    [i \in 1..(IF limit < Len(details) THEN limit ELSE Len(details)) |-> details[i].student]

\* ------------------------------------------------------- the matches server
\* POST /api/matches: the server pushes a match of its own making, with the
\* players and result of the body and the id and date of its own clock.
postMatch(server, body, id) ==
    Append(server, [id |-> id, playerA |-> body.playerA, playerB |-> body.playerB,
                    winner |-> body.winner, loser |-> body.loser, date |-> id])

\* The subscriber of the store, run at every set and update of the store with
\* the new value: if (matches.length > 0) it POSTs the last match.
posts(matches) == Len(matches) > 0

\* The server's log after the subscriber has run on matches at clock id.
saved(server, matches, id) ==
    IF posts(matches) THEN postMatch(server, matches[Len(matches)], id) ELSE server

\* The clock after the subscriber has run: a POST takes its time.
clockAfterSave(matches, id) == IF posts(matches) THEN id + 1 ELSE id

\* DELETE /api/matches with a studentId
deleteByStudent(server, studentId) ==
    SelectSeq(server, LAMBDA m : m.playerA # studentId /\ m.playerB # studentId)

\* ------------------------------------------------------------- recordMatch
\* The Match recordMatch creates when Date.now() is id: new Date() is read
\* in the same object literal, so date is the same instant.
matchAt(id, winnerId, loserId) ==
    [id |-> id, playerA |-> winnerId, playerB |-> loserId,
     winner |-> winnerId, loser |-> loserId, date |-> id]
newMatch(winnerId, loserId) == matchAt(now, winnerId, loserId)

\* PUT /api/students: the entry with that id gets the score.
putStudent(students, id, score) ==
    [i \in 1..Len(students) |->
        IF students[i].id = id /\ (\A j \in 1..(i - 1) : students[j].id # id)
        THEN [students[i] EXCEPT !.score = score]
        ELSE students[i]]

\* The guard of recordMatch: the record is appended when it holds.
recordMatchAccepts_always(winnerId, loserId, matches) == TRUE
recordMatchAccepts(winnerId, loserId, matches) == canPlay(winnerId, loserId, matches)

\* The two updateStudent calls of recordMatch, on the roster getStudents returned.
updateScores(students, fetched, winnerId, loserId) ==
    IF hasStudent(fetched, winnerId) /\ hasStudent(fetched, loserId)
    THEN putStudent(putStudent(students, winnerId, findStudent(fetched, winnerId).score + 1),
                    loserId, findStudent(fetched, loserId).score - 1)
    ELSE students

\* ------------------------------------------------- Spec: one call at a time
\* recordMatch(winnerId, loserId), from its guard to its return.  The callers
\* (handleRecordMatch, recordMatchResult) pass two distinct players.
RecordMatchCall(winnerId, loserId) ==
    /\ ret = NoRet
    /\ winnerId # loserId
    /\ IF ~recordMatchAccepts(winnerId, loserId, matchHistory)
       THEN /\ ret' = [op |-> "recordMatch", value |-> FALSE]
            /\ UNCHANGED <<matchHistory, studentsData, now, matchesData>>
       ELSE /\ matchHistory' = Append(matchHistory, newMatch(winnerId, loserId))
            /\ matchesData' = saved(matchesData, matchHistory', now)
            /\ studentsData' = updateScores(studentsData, studentsData, winnerId, loserId)
            /\ ret' = [op |-> "recordMatch", value |-> TRUE]
            /\ now' = clockAfterSave(matchHistory', now)
    /\ UNCHANGED <<rec, gen>>

\* canPlay(studentA, studentB), called on the store.
CanPlayCall(studentA, studentB) ==
    /\ ret = NoRet
    /\ ret' = [op |-> "canPlay", studentA |-> studentA, studentB |-> studentB,
               value |-> canPlay(studentA, studentB, matchHistory)]
    /\ UNCHANGED <<matchHistory, studentsData, rec, gen>>
    /\ UNCHANGED <<now, matchesData>>

\* getHeadToHead(studentA, studentB), called on the store.
HeadToHeadCall(studentA, studentB) ==
    /\ ret = NoRet
    /\ ret' = [op |-> "getHeadToHead", studentA |-> studentA, studentB |-> studentB,
               value |-> getHeadToHead(studentA, studentB, matchHistory)]
    /\ UNCHANGED <<matchHistory, studentsData, rec, gen, now, matchesData>>

\* getEligibleOpponents(studentId, margin)
EligibleOpponentsCall(studentId, margin) ==
    /\ ret = NoRet
    /\ ret' = [op |-> "getEligibleOpponents", studentId |-> studentId, margin |-> margin,
               value |-> getEligibleOpponents(studentId, margin, studentsData, matchHistory)]
    /\ UNCHANGED <<matchHistory, studentsData, rec, gen>>
    /\ UNCHANGED <<now, matchesData>>

\* getEligibleOpponentsWithDetails(studentId, margin)
EligibleWithDetailsCall(studentId, margin) ==
    /\ ret = NoRet
    /\ ret' = [op |-> "getEligibleOpponentsWithDetails", studentId |-> studentId,
               margin |-> margin,
               value |-> getEligibleOpponentsWithDetails(studentId, studentsData,
                            getEligibleOpponents(studentId, margin, studentsData, matchHistory),
                            matchHistory)]
    /\ UNCHANGED <<matchHistory, studentsData, rec, gen>>
    /\ UNCHANGED <<now, matchesData>>

\* getBestOpponentRecommendation(studentId, margin)
BestOpponentCall(studentId, margin) ==
    /\ ret = NoRet
    /\ ret' = [op |-> "getBestOpponentRecommendation", studentId |-> studentId,
               margin |-> margin,
               value |-> getBestOpponentRecommendation(
                            getEligibleOpponentsWithDetails(studentId, studentsData,
                                getEligibleOpponents(studentId, margin, studentsData, matchHistory),
                                matchHistory))]
    /\ UNCHANGED <<matchHistory, studentsData, rec, gen>>
    /\ UNCHANGED <<now, matchesData>>

\* getOpponentRecommendations(studentId, margin, limit)
OpponentRecommendationsCall(studentId, margin, limit) ==
    /\ ret = NoRet
    /\ ret' = [op |-> "getOpponentRecommendations", studentId |-> studentId,
               margin |-> margin, limit |-> limit,
               value |-> getOpponentRecommendations(
                            getEligibleOpponentsWithDetails(studentId, studentsData,
                                getEligibleOpponents(studentId, margin, studentsData, matchHistory),
                                matchHistory), limit)]
    /\ UNCHANGED <<matchHistory, studentsData, rec, gen>>
    /\ UNCHANGED <<now, matchesData>>

\* The caller takes the returned value and goes on to its next call.
TakeResult ==
    /\ ret # NoRet
    /\ ret' = NoRet
    /\ UNCHANGED <<matchHistory, studentsData, rec, gen>>
    /\ UNCHANGED <<now, matchesData>>

\* ------------------------------------------------------- pairing generator
\* What is left in an array when the sorting or swapping that produced
\* `worked` was done on a copy of it ([...array], map): the array as it was.
\* Mutant: the work is done in the array itself.
copied_aliased(array, worked) == worked
copied(array, worked) == array

\* shuffleArray: Fisher-Yates from the last index down, choices[i] being the
\* index Math.floor(Math.random() * (i + 1)) drew for position i.
swap(array, i, j) == [array EXCEPT ![i] = array[j], ![j] = array[i]]

RECURSIVE shuffleFrom(_, _, _)
shuffleFrom(array, i, choices) ==
    IF i < 2 THEN array
    ELSE shuffleFrom(swap(array, i, choices[i]), i - 1, choices)

shuffleArray(array, choices) == shuffleFrom(array, Len(array), choices)

\* What Math.random can draw for an array of n elements.
RandomChoices(n) == {choices \in [2..n -> 1..n] : \A i \in 2..n : choices[i] <= i}

\* getOptimizedMatchRecommendations: [...students].sort((a, b) => b.score - a.score)
\* Mutant: the comparator sorts by ascending score.
compareScoreDesc_ascending(a, b) == a.score - b.score
compareScoreDesc(a, b) == b.score - a.score
sortedStudents(students) ==
    stableSort(students,
               [a \in 1..Len(students) |-> [b \in 1..Len(students) |->
                    compareScoreDesc(students[a], students[b])]])

\* Mutant: the opponents already paired are not filtered out.
availableOpponents_unfiltered(eligibleOpponents, usedStudents) == eligibleOpponents

\* eligibleOpponents.filter(opponent => !usedStudents.has(opponent.id))
availableOpponents(eligibleOpponents, usedStudents) ==
    SelectSeq(eligibleOpponents, LAMBDA opponent : opponent.id \notin usedStudents)

\* getMatchRecommendations: availableOpponents.sort(by score difference)[0]
bestBySort(student, available) ==
    LET byScoreDiff(a, b) == Abs(student.score - a.score) - Abs(student.score - b.score)
    IN  stableSort(available,
                   [a \in 1..Len(available) |-> [b \in 1..Len(available) |->
                        byScoreDiff(available[a], available[b])]])[1]

\* getOptimizedMatchRecommendations: availableOpponents.reduce(closest score)
RECURSIVE reduceBest(_, _, _, _)
reduceBest(student, available, best, k) ==
    IF k > Len(available) THEN best
    ELSE reduceBest(student, available,
                    IF Abs(student.score - available[k].score) < Abs(student.score - best.score)
                    THEN available[k] ELSE best,
                    k + 1)

\* Mutant: the reduce starts from the last opponent and goes down, so of the
\* opponents at the closest score the last one is kept.
bestByReduce_fromLast(student, available) ==
    LET reversed == [k \in 1..Len(available) |-> available[Len(available) + 1 - k]]
    IN  reduceBest(student, reversed, reversed[1], 2)
bestByReduce(student, available) == reduceBest(student, available, available[1], 2)

bestOpponentOf(mode, student, available) ==
    IF mode = "getOptimizedMatchRecommendations" THEN bestByReduce(student, available)
    ELSE bestBySort(student, available)

\* Mutants: the double check is left out; the double check is inverted; the
\* double check never passes.
stillCanPlay_never(studentA, studentB, matches) == FALSE
stillCanPlay_skipped(studentA, studentB, matches) == TRUE
stillCanPlay_inverted(studentA, studentB, matches) == ~canPlay(studentA, studentB, matches)

\* The double check before a pairing is pushed.
stillCanPlay(studentA, studentB, matches) == canPlay(studentA, studentB, matches)

recommendation(student, bestOpponent) ==
    [playerA |-> student, playerB |-> bestOpponent,
     scoreDifference |-> Abs(student.score - bestOpponent.score)]

\* The greedy loop from the i-th student of order on, run with nothing else
\* running between its awaits: every getEligibleOpponents fetches roster
\* and reads matches.
RECURSIVE greedyLoop(_, _, _, _, _, _, _, _)
greedyLoop(mode, order, i, usedStudents, recommendations, margin, roster, matches) ==
    IF i > Len(order) THEN recommendations
    ELSE IF order[i].id \in usedStudents
    THEN greedyLoop(mode, order, i + 1, usedStudents, recommendations,
                    margin, roster, matches)
    ELSE LET student == order[i]
             eligibleOpponents == getEligibleOpponents(student.id, margin, roster, matches)
             available == availableOpponents(eligibleOpponents, usedStudents)
             bestOpponent == bestOpponentOf(mode, student, available)
             paired == Len(available) > 0
                       /\ stillCanPlay(student.id, bestOpponent.id, matches)
         IN  greedyLoop(mode, order, i + 1,
                        IF paired THEN usedStudents \cup {student.id, bestOpponent.id}
                        ELSE usedStudents,
                        IF paired
                        THEN Append(recommendations, recommendation(student, bestOpponent))
                        ELSE recommendations,
                        margin, roster, matches)

\* getOptimizedMatchRecommendations(students, margin), run whole.
getOptimizedMatchRecommendations(students, margin, roster, matches) ==
    IF Len(students) < 2 THEN <<>>
    ELSE greedyLoop("getOptimizedMatchRecommendations", sortedStudents(students), 1,
                    {}, <<>>, margin, roster, matches)

\* ------------------------------------------------------- round statistics
\* Mutant: the pool-size guard is left out.
hasPossibleMatchRecommendations_noMinimum(students, margin, roster, matches) ==
    \E i \in 1..Len(students) :
        Len(getEligibleOpponents(students[i].id, margin, roster, matches)) > 0

\* hasPossibleMatchRecommendations(students, margin): the loop returns true at
\* the first student whose getEligibleOpponents is not empty.  roster is what
\* getStudents fetches, matches the store.
hasPossibleMatchRecommendations(students, margin, roster, matches) ==
    IF Len(students) < 2 THEN FALSE
    ELSE \E i \in 1..Len(students) :
            /\ Len(getEligibleOpponents(students[i].id, margin, roster, matches)) > 0
            /\ \A j \in 1..(i - 1) :
                Len(getEligibleOpponents(students[j].id, margin, roster, matches)) = 0

\* The sum of f[1..n].
RECURSIVE sumTo(_, _)
sumTo(f, n) == IF n = 0 THEN 0 ELSE sumTo(f, n - 1) + f[n]

\* Mutant: every student is counted as having opponents.
countsAsWithOpponents_always(eligibleOpponents) == TRUE
\* if (eligibleOpponents.length > 0) in the loop of getMatchRecommendationStats
countsAsWithOpponents(eligibleOpponents) == Len(eligibleOpponents) > 0

\* getMatchRecommendationStats(students, margin).  The quotient
\* totalScoreDifference / matchCount is kept as its numerator and denominator.
getMatchRecommendationStats(students, margin, roster, matches) ==
    IF Len(students) < 2
    THEN [totalStudents |-> Len(students), studentsWithOpponents |-> 0,
          possibleMatches |-> 0, averageScoreDifference |-> [num |-> 0, den |-> 1]]
    ELSE LET n == Len(students)
             eligibleOpponents == [i \in 1..n |->
                 getEligibleOpponents(students[i].id, margin, roster, matches)]
             counted == [i \in 1..n |-> countsAsWithOpponents(eligibleOpponents[i])]
             scoreDifferences == [i \in 1..n |->
                 IF counted[i]
                 THEN sumTo([k \in 1..Len(eligibleOpponents[i]) |->
                                Abs(students[i].score - eligibleOpponents[i][k].score)],
                            Len(eligibleOpponents[i]))
                 ELSE 0]
             totalPossibleMatches ==
                 sumTo([i \in 1..n |-> IF counted[i] THEN Len(eligibleOpponents[i]) ELSE 0], n)
             totalScoreDifference == sumTo(scoreDifferences, n)
         IN  [totalStudents |-> n,
              studentsWithOpponents |-> sumTo([i \in 1..n |-> IF counted[i] THEN 1 ELSE 0], n),
              possibleMatches |-> totalPossibleMatches,
              averageScoreDifference |->
                 IF totalPossibleMatches > 0
                 THEN [num |-> totalScoreDifference, den |-> totalPossibleMatches]
                 ELSE [num |-> 0, den |-> 1]]

\* hasPossibleMatchRecommendations(students, margin), called by the page with
\* the students it holds.
HasPossibleCall(students, margin) ==
    /\ ret = NoRet
    /\ ret' = [op |-> "hasPossibleMatchRecommendations", students |-> students,
               margin |-> margin,
               value |-> hasPossibleMatchRecommendations(students, margin,
                                                         studentsData, matchHistory)]
    /\ UNCHANGED <<matchHistory, studentsData, rec, gen>>
    /\ UNCHANGED <<now, matchesData>>

\* getMatchRecommendationStats(students, margin)
StatsCall(students, margin) ==
    /\ ret = NoRet
    /\ ret' = [op |-> "getMatchRecommendationStats", students |-> students,
               margin |-> margin,
               value |-> getMatchRecommendationStats(students, margin,
                                                     studentsData, matchHistory)]
    /\ UNCHANGED <<matchHistory, studentsData, rec, gen>>
    /\ UNCHANGED <<now, matchesData>>

\* ------------------------------------------------------------ leaderboard
\* A quotient a / b of two numbers, kept as numerator and denominator (b > 0);
\* two quotients are the same number when their cross products agree.
quotient(a, b) == [num |-> a, den |-> b]
quotientDiff(x, y) == x.num * y.den - y.num * x.den

\* Mutant: only playerA counts as taking part in a match.
isInMatch_playerAOnly(studentId, match) == match.playerA = studentId
\* calculateStudentStats: match.playerA === studentId || match.playerB === studentId
isInMatch(studentId, match) == match.playerA = studentId \/ match.playerB = studentId

\* calculateStudentStats(studentId, matches); winRate is (wins / totalMatches) * 100.
calculateStudentStats(studentId, matches) ==
    LET wins == Len(SelectSeq(matches, LAMBDA match :
                    isInMatch(studentId, match) /\ match.winner = studentId))
        losses == Len(SelectSeq(matches, LAMBDA match :
                    isInMatch(studentId, match) /\ match.winner # studentId))
        totalMatches == wins + losses
    IN  [wins |-> wins, losses |-> losses, totalMatches |-> totalMatches,
         winRate |-> IF totalMatches > 0 THEN quotient(wins * 100, totalMatches)
                     ELSE quotient(0, 1)]

\* The entry the matchStats store creates for a student it has not seen.
zeroStats == [wins |-> 0, losses |-> 0, total |-> 0]

\* Mutant: the loser of a match is not charged with the loss.
countMatch_noLoss(stats, match) ==
    LET seen == [id \in {match.playerA, match.playerB} \ DOMAIN stats |-> zeroStats] @@ stats
        won == IF match.winner = match.playerA
               THEN [seen EXCEPT ![match.playerA].wins = @ + 1]
               ELSE [seen EXCEPT ![match.playerB].wins = @ + 1]
        totalA == [won EXCEPT ![match.playerA].total = @ + 1]
    IN  [totalA EXCEPT ![match.playerB].total = @ + 1]

\* The body of the forEach of the matchStats store: both players get an entry,
\* the winner's wins and the other player's losses go up, then both totals.
countMatch(stats, match) ==
    LET seen == [id \in {match.playerA, match.playerB} \ DOMAIN stats |-> zeroStats] @@ stats
        won == IF match.winner = match.playerA
               THEN [[seen EXCEPT ![match.playerA].wins = @ + 1]
                           EXCEPT ![match.playerB].losses = @ + 1]
               ELSE [[seen EXCEPT ![match.playerB].wins = @ + 1]
                           EXCEPT ![match.playerA].losses = @ + 1]
        totalA == [won EXCEPT ![match.playerA].total = @ + 1]
    IN  [totalA EXCEPT ![match.playerB].total = @ + 1]

\* The matchStats store: a map from student id to wins, losses and total,
\* derived from the match history.
RECURSIVE matchStats(_)
matchStats(matches) ==
    IF Len(matches) = 0 THEN [id \in {} |-> zeroStats]
    ELSE countMatch(matchStats(SubSeq(matches, 1, Len(matches) - 1)),
                    matches[Len(matches)])

\* getStudentMatchStats(studentId): the store's entry, or zeros.
getStudentMatchStats(studentId, matches) ==
    LET stats == matchStats(matches)
    IN  IF studentId \in DOMAIN stats THEN stats[studentId] ELSE zeroStats

\* Mutant: the comparator stops after the win rate.
compareEntries_noTotalMatches(a, b) ==
    IF b.student.score # a.student.score THEN b.student.score - a.student.score
    ELSE IF quotientDiff(b.winRate, a.winRate) # 0 THEN quotientDiff(b.winRate, a.winRate)
    ELSE a.student.name - b.student.name

\* Mutant: the comparator stops after the total matches.
compareEntries_noName(a, b) ==
    IF b.student.score # a.student.score THEN b.student.score - a.student.score
    ELSE IF quotientDiff(b.winRate, a.winRate) # 0 THEN quotientDiff(b.winRate, a.winRate)
    ELSE b.totalMatches - a.totalMatches

\* The comparator of getLeaderboard; a name is its rank under localeCompare.
compareEntries(a, b) ==
    IF b.student.score # a.student.score THEN b.student.score - a.student.score
    ELSE IF quotientDiff(b.winRate, a.winRate) # 0 THEN quotientDiff(b.winRate, a.winRate)
    ELSE IF b.totalMatches # a.totalMatches THEN b.totalMatches - a.totalMatches
    ELSE a.student.name - b.student.name

\* getLeaderboard(students, matches)
getLeaderboard(students, matches) ==
    LET entries == [i \in 1..Len(students) |->
                        LET stats == calculateStudentStats(students[i].id, matches)
                        IN  [student |-> students[i], wins |-> stats.wins,
                             losses |-> stats.losses, totalMatches |-> stats.totalMatches,
                             winRate |-> stats.winRate]]
    IN  stableSort(entries,
                   [a \in 1..Len(entries) |-> [b \in 1..Len(entries) |->
                        compareEntries(entries[a], entries[b])]])

\* Mutant: the rank is the index findIndex returns.
rankOfIndex_zeroBased(index) == IF index >= 0 THEN index ELSE -1
\* getStudentRank: index >= 0 ? index + 1 : -1
rankOfIndex(index) == IF index >= 0 THEN index + 1 ELSE -1

\* getStudentRank(studentId, students, matches); findIndex counts from 0.
getStudentRank(studentId, students, matches) ==
    LET leaderboard == getLeaderboard(students, matches)
        found == {i \in 1..Len(leaderboard) : leaderboard[i].student.id = studentId}
        index == IF found = {} THEN -1
                 ELSE (CHOOSE i \in found : \A j \in found : i <= j) - 1
    IN  rankOfIndex(index)

\* getLeaderboard(students, matches), on the store
LeaderboardCall(students) ==
    /\ ret = NoRet
    /\ ret' = [op |-> "getLeaderboard", students |-> students,
               pool |-> LET leaderboardData == getLeaderboard(students, matchHistory)
                        IN  copied(students, [i \in 1..Len(leaderboardData) |->
                                                  leaderboardData[i].student]),
               value |-> getLeaderboard(students, matchHistory)]
    /\ UNCHANGED <<matchHistory, studentsData, rec, gen>>
    /\ UNCHANGED <<now, matchesData>>

\* getStudentRank(studentId, students, matches), on the store
StudentRankCall(studentId, students) ==
    /\ ret = NoRet
    /\ ret' = [op |-> "getStudentRank", studentId |-> studentId, students |-> students,
               value |-> getStudentRank(studentId, students, matchHistory)]
    /\ UNCHANGED <<matchHistory, studentsData, rec, gen>>
    /\ UNCHANGED <<now, matchesData>>

\* calculateStudentStats(studentId, matches), on the store
StudentStatsCall(studentId) ==
    /\ ret = NoRet
    /\ ret' = [op |-> "calculateStudentStats", studentId |-> studentId,
               value |-> calculateStudentStats(studentId, matchHistory)]
    /\ UNCHANGED <<matchHistory, studentsData, rec, gen>>
    /\ UNCHANGED <<now, matchesData>>

\* ------------------------------------- GenSpec: recordMatch, await by await
\* A change of the store or of the roster while a round is being generated.
disturbed(g) == IF g.pc = "idle" THEN g ELSE [g EXCEPT !.quiet = FALSE]

\* recordMatch up to its first await: the guard, the append to the store and
\* the GET of getStudents.
RecordMatch(winnerId, loserId) ==
    /\ rec.pc = "idle"
    /\ winnerId # loserId
    /\ IF ~recordMatchAccepts(winnerId, loserId, matchHistory)
       THEN /\ ret' = [op |-> "recordMatch", value |-> FALSE]
            /\ UNCHANGED <<matchHistory, rec, gen, now, matchesData>>
       ELSE /\ matchHistory' = Append(matchHistory, newMatch(winnerId, loserId))
            /\ matchesData' = saved(matchesData, matchHistory', now)
            /\ rec' = [pc |-> "putWinner", calls |-> rec.calls + 1,
                       winnerId |-> winnerId, loserId |-> loserId,
                       students |-> studentsData]
            /\ gen' = disturbed(gen)
            /\ ret' = NoRet
            /\ now' = clockAfterSave(matchHistory', now)
    /\ UNCHANGED studentsData

\* await updateStudent(winnerId, winner.name, winner.score + 1)
RecordPutWinner ==
    /\ rec.pc = "putWinner"
    /\ studentsData' =
            IF hasStudent(rec.students, rec.winnerId) /\ hasStudent(rec.students, rec.loserId)
            THEN putStudent(studentsData, rec.winnerId,
                            findStudent(rec.students, rec.winnerId).score + 1)
            ELSE studentsData
    /\ rec' = [rec EXCEPT !.pc = "putLoser"]
    /\ gen' = disturbed(gen)
    /\ ret' = NoRet
    /\ UNCHANGED matchHistory
    /\ UNCHANGED <<now, matchesData>>

\* await updateStudent(loserId, loser.name, loser.score - 1); return true
RecordPutLoser ==
    /\ rec.pc = "putLoser"
    /\ studentsData' =
            IF hasStudent(rec.students, rec.winnerId) /\ hasStudent(rec.students, rec.loserId)
            THEN putStudent(studentsData, rec.loserId,
                            findStudent(rec.students, rec.loserId).score - 1)
            ELSE studentsData
    /\ rec' = IdleRec(rec.calls)
    /\ gen' = disturbed(gen)
    /\ ret' = [op |-> "recordMatch", value |-> TRUE]
    /\ UNCHANGED matchHistory
    /\ UNCHANGED <<now, matchesData>>

\* ------------------------------------ GenSpec: generation, await by await
\* getMatchRecommendationsWithDetails: headToHead.sort(by date, descending)[0].date,
\* undefined without a match.
lastPlayed(headToHead) ==
    IF Len(headToHead) = 0 THEN "undefined"
    ELSE LET byDateDesc == stableSort(headToHead,
                 [a \in 1..Len(headToHead) |-> [b \in 1..Len(headToHead) |->
                      headToHead[b].date - headToHead[a].date]])
         IN  byDateDesc[1].date

\* getMatchRecommendationsWithDetails: the map over the recommendations.
withDetails(recommendations, matches) ==
    [i \in 1..Len(recommendations) |->
        LET headToHead == getHeadToHead(recommendations[i].playerA.id,
                                        recommendations[i].playerB.id, matches)
        IN  [playerA |-> recommendations[i].playerA,
             playerB |-> recommendations[i].playerB,
             scoreDifference |-> recommendations[i].scoreDifference,
             matchCount |-> Len(headToHead),
             lastPlayed |-> lastPlayed(headToHead)]]

\* What the generator returns of the recommendations of its loop.
roundReturned(mode, recommendations, matches) ==
    IF mode = "getMatchRecommendationsWithDetails"
    THEN withDetails(recommendations, matches)
    ELSE recommendations

\* The page loads the roster and calls the generator with it (onMount):
\* the code up to the loop.  order is shuffledStudents or sortedStudents.
GenStart(mode, margin, order) ==
    /\ gen.pc = "idle"
    /\ ret = NoRet
    /\ IF Len(studentsData) < 2
       THEN /\ ret' = [op |-> mode, margin |-> margin, students |-> studentsData,
                       pool |-> studentsData,
                       order |-> <<>>, quiet |-> TRUE, value |-> <<>>]
            /\ UNCHANGED gen
       ELSE /\ gen' = [pc |-> "loop", mode |-> mode, margin |-> margin,
                       students |-> studentsData,
                       pool |-> copied(studentsData, order), order |-> order, i |-> 1,
                       usedStudents |-> {}, recommendations |-> <<>>, quiet |-> TRUE]
            /\ ret' = NoRet
    /\ UNCHANGED <<matchHistory, studentsData, rec>>
    /\ UNCHANGED <<now, matchesData>>

GetMatchRecommendationsCall(margin) ==
    \E choices \in RandomChoices(Len(studentsData)) :
        GenStart("getMatchRecommendations", margin, shuffleArray(studentsData, choices))

GetOptimizedMatchRecommendationsCall(margin) ==
    GenStart("getOptimizedMatchRecommendations", margin, sortedStudents(studentsData))

GetMatchRecommendationsWithDetailsCall(margin) ==
    \E choices \in RandomChoices(Len(studentsData)) :
        GenStart("getMatchRecommendationsWithDetails", margin,
                 shuffleArray(studentsData, choices))

\* The loop is over: return recommendations.
GenReturn ==
    /\ gen.pc = "loop"
    /\ gen.i > Len(gen.order)
    /\ ret' = [op |-> gen.mode, margin |-> gen.margin, students |-> gen.students,
               pool |-> gen.pool, order |-> gen.order, quiet |-> gen.quiet,
               value |-> roundReturned(gen.mode, gen.recommendations, matchHistory)]
    /\ gen' = IdleGen
    /\ UNCHANGED <<matchHistory, studentsData, rec>>
    /\ UNCHANGED <<now, matchesData>>

\* if (usedStudents.has(student.id)) continue
GenSkip ==
    /\ gen.pc = "loop"
    /\ gen.i <= Len(gen.order)
    /\ gen.order[gen.i].id \in gen.usedStudents
    /\ gen' = [gen EXCEPT !.i = gen.i + 1]
    /\ ret' = NoRet
    /\ UNCHANGED <<matchHistory, studentsData, rec>>
    /\ UNCHANGED <<now, matchesData>>

\* await getEligibleOpponents(student.id, margin): its GET of the roster.
GenFetch ==
    /\ gen.pc = "loop"
    /\ gen.i <= Len(gen.order)
    /\ gen.order[gen.i].id \notin gen.usedStudents
    /\ gen' = [pc |-> "filter", fetched |-> studentsData] @@ gen
    /\ ret' = NoRet
    /\ UNCHANGED <<matchHistory, studentsData, rec>>
    /\ UNCHANGED <<now, matchesData>>

\* getEligibleOpponents after its await: the filter, on the store as it is now.
GenFilter ==
    /\ gen.pc = "filter"
    /\ gen' = [pc |-> "pair",
               eligibleOpponents |-> getEligibleOpponents(gen.order[gen.i].id, gen.margin,
                                                          gen.fetched, matchHistory)]
              @@ [f \in (DOMAIN gen) \ {"fetched"} |-> gen[f]]
    /\ ret' = NoRet
    /\ UNCHANGED <<matchHistory, studentsData, rec>>
    /\ UNCHANGED <<now, matchesData>>

\* The loop body after the await: pick the best available opponent, check
\* canPlay again and push the pairing.
GenPair ==
    /\ gen.pc = "pair"
    /\ LET student == gen.order[gen.i]
           available == availableOpponents(gen.eligibleOpponents, gen.usedStudents)
           bestOpponent == bestOpponentOf(gen.mode, student, available)
           paired == Len(available) > 0
                     /\ stillCanPlay(student.id, bestOpponent.id, matchHistory)
       IN  gen' = [pc |-> "loop", i |-> gen.i + 1,
                   recommendations |->
                        IF paired
                        THEN Append(gen.recommendations, recommendation(student, bestOpponent))
                        ELSE gen.recommendations,
                   usedStudents |->
                        IF paired
                        THEN gen.usedStudents \cup {student.id, bestOpponent.id}
                        ELSE gen.usedStudents]
                  @@ [f \in (DOMAIN gen) \ {"eligibleOpponents"} |-> gen[f]]
    /\ ret' = NoRet
    /\ UNCHANGED <<matchHistory, studentsData, rec>>
    /\ UNCHANGED <<now, matchesData>>

\* ------------------------------------------------------------ specification
\* A roster of students that have not played: every score is 0.
newStudents(ids) ==
    [i \in 1..Len(ids) |-> [id |-> ids[i], name |-> NameOf[ids[i]], score |-> 0]]

InitStudents == newStudents(IdOrder)
GenInitStudents == newStudents(GenIdOrder)

\* The ids a caller can pass: those of the roster.
Ids == {studentsData[i].id : i \in 1..Len(studentsData)}
\* The ids of a single-student query: those, or an id that is not in the roster.
AnyIds == Ids \cup {MissingId}
\* The students a page holds when it calls: the roster as it was loaded, or
\* what was loaded before the other students were added.
Pools == {SelectSeq(studentsData, LAMBDA student : student.id \in kept) : kept \in SUBSET Ids}

Init ==
    /\ matchHistory = <<>>
    /\ studentsData = InitStudents
    /\ rec = IdleRec(0)
    /\ gen = IdleGen
    /\ ret = NoRet
    /\ now = Len(matchHistory) + 1
    /\ matchesData = <<>>

Next ==
    \/ /\ Len(matchHistory) < MaxMatches
       /\ \E winnerId \in Ids, loserId \in Ids : RecordMatchCall(winnerId, loserId)
    \/ \E studentA \in Ids, studentB \in Ids : CanPlayCall(studentA, studentB)
    \/ \E studentA \in Ids, studentB \in Ids : HeadToHeadCall(studentA, studentB)
    \/ \E studentId \in AnyIds, margin \in AnyMargins : EligibleOpponentsCall(studentId, margin)
    \/ \E studentId \in AnyIds, margin \in Margins : EligibleWithDetailsCall(studentId, margin)
    \/ \E studentId \in AnyIds, margin \in Margins : BestOpponentCall(studentId, margin)
    \/ \E studentId \in Ids, margin \in Margins, limit \in Limits :
            OpponentRecommendationsCall(studentId, margin, limit)
    \/ \E students \in Pools, margin \in AnyMargins : HasPossibleCall(students, margin)
    \/ \E students \in Pools, margin \in AnyMargins : StatsCall(students, margin)
    \/ TakeResult

Spec == Init /\ [][Next]_vars

\* The store as loadMatchesFromServer sets it when the session begins, with
\* the roster the server holds then: no earlier match, or an earlier session
\* in which "s1" beat "s2" twice.
\* The subscriber has run on the loaded list.
EarlierMatches == <<matchAt(1, "s1", "s2"), matchAt(2, "s1", "s2")>>
afterMatch(students, winnerId, loserId) == updateScores(students, students, winnerId, loserId)
EarlierStudents == afterMatch(afterMatch(GenInitStudents, "s1", "s2"), "s1", "s2")

GenInit ==
    /\ \/ matchHistory = <<>> /\ studentsData = GenInitStudents
       \/ matchHistory = EarlierMatches /\ studentsData = EarlierStudents
    /\ rec = IdleRec(0)
    /\ gen = IdleGen
    /\ ret = NoRet
    /\ matchesData = saved(matchHistory, matchHistory, Len(matchHistory) + 1)
    /\ now = Len(matchesData) + 1

GenNext ==
    \/ /\ rec.calls < GenMaxMatches
       /\ \E winnerId \in Ids, loserId \in Ids : RecordMatch(winnerId, loserId)
    \/ RecordPutWinner
    \/ RecordPutLoser
    \/ \E margin \in Margins : GetMatchRecommendationsCall(margin)
    \/ \E margin \in Margins : GetOptimizedMatchRecommendationsCall(margin)
    \/ GenReturn
    \/ GenSkip
    \/ GenFetch
    \/ GenFilter
    \/ GenPair
    \/ TakeResult

GenSpec == GenInit /\ [][GenNext]_vars

\* The students of a pool in every order: the sequences without repetition
\* of students of the roster.
BoardPools ==
    UNION {{students \in [1..n -> {studentsData[i] : i \in 1..Len(studentsData)}] :
                \A i, j \in 1..n : i # j => students[i] # students[j]} :
           n \in 0..Len(studentsData)}

\* The leaderboard over a roster of students that have not played, their
\* names all different or two of them the same.
BoardInit ==
    /\ matchHistory = <<>>
    /\ \E names \in {NameOf, SameNameOf} :
            studentsData = [i \in 1..Len(IdOrder) |->
                                [id |-> IdOrder[i], name |-> names[IdOrder[i]], score |-> 0]]
    /\ rec = IdleRec(0)
    /\ gen = IdleGen
    /\ ret = NoRet
    /\ now = Len(matchHistory) + 1
    /\ matchesData = <<>>

BoardNext ==
    \/ /\ Len(matchHistory) < MaxMatches
       /\ \E winnerId \in Ids, loserId \in Ids : RecordMatchCall(winnerId, loserId)
    \/ \E students \in BoardPools : LeaderboardCall(students)
    \/ \E studentId \in AnyIds, students \in BoardPools : StudentRankCall(studentId, students)
    \/ \E studentId \in AnyIds : StudentStatsCall(studentId)
    \/ TakeResult

BoardSpec == BoardInit /\ [][BoardNext]_vars

\* ------------------------------------- OverlapSpec: recordMatch calls overlap
\* Two callers of recordMatch.  One call runs await by await (RecordMatch,
\* RecordPutWinner, RecordPutLoser); while it waits for getStudents or for an
\* updateStudent, a second call may run from its guard to its return
\* (RecordMatchCall).  recordMatch takes no lock; a page disables only its
\* own buttons while its own call is in flight (Matches/+page.svelte 55-72,
\* MatchRecommendations.svelte 72-100), so a second page, component or client
\* of the same server is not held back.
OverlapNext ==
    \/ \E winnerId, loserId \in Ids :
          /\ Len(matchHistory) < MaxMatches
          /\ RecordMatch(winnerId, loserId)
    \/ RecordPutWinner
    \/ RecordPutLoser
    \/ \E winnerId, loserId \in Ids :
          /\ Len(matchHistory) < MaxMatches
          /\ RecordMatchCall(winnerId, loserId)
    \/ TakeResult

OverlapSpec == Init /\ [][OverlapNext]_vars

\* ----------------------------------- ReadSpec: the queries, one at a time
\* Every query of lib/matches, lib/opponents, lib/matchRecommendations and
\* lib/leaderboard, called between recorded matches; a generator runs to its
\* return before the next call.
\* No generator is running: the next call may be made.
genIdle == gen.pc = "idle"

ReadNext ==
    \/ /\ genIdle
       /\ Len(matchHistory) < ReadMaxMatches
       /\ \E winnerId \in Ids, loserId \in Ids : RecordMatchCall(winnerId, loserId)
    \/ genIdle /\ \E studentA \in Ids, studentB \in Ids : CanPlayCall(studentA, studentB)
    \/ genIdle /\ \E studentA \in Ids, studentB \in Ids : HeadToHeadCall(studentA, studentB)
    \/ genIdle /\ \E studentId \in Ids, margin \in Margins :
                        EligibleOpponentsCall(studentId, margin)
    \/ genIdle /\ \E studentId \in Ids, margin \in Margins :
                        EligibleWithDetailsCall(studentId, margin)
    \/ genIdle /\ \E students \in Pools, margin \in Margins : HasPossibleCall(students, margin)
    \/ genIdle /\ \E students \in Pools, margin \in Margins : StatsCall(students, margin)
    \/ genIdle /\ \E students \in BoardPools : LeaderboardCall(students)
    \/ \E margin \in Margins : GetMatchRecommendationsCall(margin)
    \/ \E margin \in Margins : GetMatchRecommendationsWithDetailsCall(margin)
    \/ \E margin \in Margins : GetOptimizedMatchRecommendationsCall(margin)
    \/ GenReturn
    \/ GenSkip
    \/ GenFetch
    \/ GenFilter
    \/ GenPair
    \/ TakeResult

ReadSpec == Init /\ [][ReadNext]_vars

\* ------------------------------------------- WriteSpec: writes to the history
\* matches.find(m => m.id === matchId)
hasMatch(matches, matchId) == \E i \in 1..Len(matches) : matches[i].id = matchId
findMatch(matches, matchId) ==
    matches[CHOOSE i \in 1..Len(matches) :
               /\ matches[i].id = matchId
               /\ \A j \in 1..(i - 1) : matches[j].id # matchId]

\* deleteMatch after the store update: with both players in the fetched
\* roster, the winner is PUT its fetched score - 1, then the loser its
\* fetched score + 1.
\* Mutant: only the winner's score is reverted.
revertScores_winnerOnly(students, fetched, winnerId, loserId) ==
    IF hasStudent(fetched, winnerId) /\ hasStudent(fetched, loserId)
    THEN putStudent(students, winnerId, findStudent(fetched, winnerId).score - 1)
    ELSE students
revertScores(students, fetched, winnerId, loserId) ==
    IF hasStudent(fetched, winnerId) /\ hasStudent(fetched, loserId)
    THEN putStudent(putStudent(students, winnerId, findStudent(fetched, winnerId).score - 1),
                    loserId, findStudent(fetched, loserId).score + 1)
    ELSE students

\* deleteMatch, from its lookup to its return.
DeleteMatchCall(matchId) ==
    /\ ret = NoRet
    /\ IF ~hasMatch(matchHistory, matchId)
       THEN /\ ret' = [op |-> "deleteMatch", matchId |-> matchId, value |-> FALSE]
            /\ UNCHANGED <<matchHistory, studentsData, now, matchesData>>
       ELSE LET matchToDelete == findMatch(matchHistory, matchId)
            IN  /\ matchHistory' = SelectSeq(matchHistory, LAMBDA m : m.id # matchId)
                /\ matchesData' = saved(matchesData, matchHistory', now)
                /\ now' = clockAfterSave(matchHistory', now)
                /\ studentsData' = revertScores(studentsData, studentsData,
                                                matchToDelete.winner, matchToDelete.loser)
                /\ ret' = [op |-> "deleteMatch", matchId |-> matchId, value |-> TRUE]
    /\ UNCHANGED <<rec, gen>>

\* match.playerA === studentId || match.playerB === studentId
involves(match, studentId) == match.playerA = studentId \/ match.playerB = studentId

\* The loop of deleteMatchesByStudent from its k-th match on: the other
\* player, when in the fetched roster, is PUT its fetched score - 1 when it
\* won the match and its fetched score + 1 when it lost.
RECURSIVE revertOthers(_, _, _, _, _)
revertOthers(students, fetched, studentId, matchesToDelete, k) ==
    IF k > Len(matchesToDelete)
    THEN students
    ELSE LET match == matchesToDelete[k]
             otherPlayerId == IF match.playerA = studentId THEN match.playerB
                              ELSE match.playerA
             change == IF match.winner = otherPlayerId THEN -1 ELSE 1
             updated == IF hasStudent(fetched, otherPlayerId)
                        THEN putStudent(students, otherPlayerId,
                                 findStudent(fetched, otherPlayerId).score + change)
                        ELSE students
         IN  revertOthers(updated, fetched, studentId, matchesToDelete, k + 1)

\* deleteMatchesByStudent, from its lookup to its return, the server
\* answering its DELETE with ok.
DeleteMatchesByStudentCall(studentId) ==
    /\ ret = NoRet
    /\ LET matchesToDelete == SelectSeq(matchHistory, LAMBDA m : involves(m, studentId))
       IN  IF Len(matchesToDelete) = 0
           THEN UNCHANGED <<matchHistory, studentsData, now, matchesData>>
           ELSE /\ matchHistory' = SelectSeq(matchHistory,
                                        LAMBDA m : ~involves(m, studentId))
                /\ matchesData' = saved(deleteByStudent(matchesData, studentId),
                                        matchHistory', now)
                /\ now' = clockAfterSave(matchHistory', now)
                /\ studentsData' = revertOthers(studentsData, studentsData, studentId,
                                                matchesToDelete, 1)
    /\ ret' = [op |-> "deleteMatchesByStudent", studentId |-> studentId, value |-> TRUE]
    /\ UNCHANGED <<rec, gen>>

\* clearMatchHistory: matchHistory.set([])
ClearMatchHistoryCall ==
    /\ ret = NoRet
    /\ matchHistory' = <<>>
    /\ ret' = [op |-> "clearMatchHistory"]
    /\ UNCHANGED <<studentsData, rec, gen, now, matchesData>>

\* The ids a caller passes to deleteMatch: those of the records created so
\* far, and one of no record.
MatchIds == 0..(now - 1)

WriteIdOrder == <<"s1", "s2">>

WriteInit ==
    /\ matchHistory = <<>>
    /\ studentsData = newStudents(WriteIdOrder)
    /\ rec = IdleRec(0)
    /\ gen = IdleGen
    /\ ret = NoRet
    /\ now = Len(matchHistory) + 1
    /\ matchesData = <<>>

\* The writes of lib/matches, one call at a time.
WriteNext ==
    \/ \E winnerId, loserId \in Ids :
          /\ now <= WriteMaxClock
          /\ RecordMatchCall(winnerId, loserId)
    \/ \E matchId \in MatchIds : DeleteMatchCall(matchId)
    \/ \E studentId \in AnyIds : DeleteMatchesByStudentCall(studentId)
    \/ ClearMatchHistoryCall
    \/ TakeResult

WriteSpec == WriteInit /\ [][WriteNext]_vars

\* ----------------------------------- SyncSpec: the store and the server log
\* The page is loaded: the module is evaluated again, the store starts empty
\* (the subscriber, called with [], saves nothing) and loadMatchesFromServer
\* sets it to the list the server answers; the subscriber runs on that list.
LoadMatchesFromServer ==
    /\ ret = NoRet
    /\ matchHistory' = matchesData
    /\ matchesData' = saved(matchesData, matchHistory', now)
    /\ now' = clockAfterSave(matchHistory', now)
    /\ ret' = [op |-> "loadMatchesFromServer"]
    /\ UNCHANGED <<studentsData, rec, gen>>

\* The writes of lib/matches and the page load, one at a time.
SyncNext ==
    \/ \E winnerId, loserId \in Ids :
          /\ now <= SyncMaxClock
          /\ RecordMatchCall(winnerId, loserId)
    \/ \E matchId \in MatchIds : DeleteMatchCall(matchId)
    \/ \E studentId \in AnyIds : DeleteMatchesByStudentCall(studentId)
    \/ ClearMatchHistoryCall
    \/ now <= SyncMaxClock /\ LoadMatchesFromServer
    \/ TakeResult

SyncSpec == WriteInit /\ [][SyncNext]_vars

\* ================================================================== claims
\* What the claims speak of, stated on the store directly.
\* The records of the history whose players are {a, b}.
recordsBetween(a, b) ==
    {i \in 1..Len(matchHistory) :
        {matchHistory[i].playerA, matchHistory[i].playerB} = {a, b}}
\* How many of them x won.
winsBetween(x, a, b) ==
    Cardinality({i \in recordsBetween(a, b) : matchHistory[i].winner = x})
\* Exactly one of a, b is the winner of exactly 2 of their records.
oneSideWonTwo(a, b) ==
    (winsBetween(a, a, b) = 2) # (winsBetween(b, a, b) = 2)

\* C4: canPlay(a, b) is true when the two have fewer than 3 records, when
\* they have exactly 3 it is true iff exactly one of them won exactly 2 of
\* the 3, and when they have more than 3 it is false.
C4_CanPlayRule ==
    ret.op = "canPlay" =>
        LET n == Cardinality(recordsBetween(ret.studentA, ret.studentB))
        IN  /\ n < 3 => ret.value = TRUE
            /\ n = 3 => (ret.value <=> oneSideWonTwo(ret.studentA, ret.studentB))
            /\ n > 3 => ret.value = FALSE

\* canPlay has answered for two students with more than 3 records.
C4_Witness ==
    /\ ret.op = "canPlay"
    /\ Cardinality(recordsBetween(ret.studentA, ret.studentB)) > 3
    /\ ret.value = FALSE

\* C5: canPlay is symmetric: canPlay(a, b) = canPlay(b, a) on every history.
C5_CanPlaySymmetric ==
    ret.op = "canPlay" =>
        ret.value = canPlay(ret.studentB, ret.studentA, matchHistory)

\* canPlay has allowed a decider: 3 records, the second argument having won 2.
C5_Witness ==
    /\ ret.op = "canPlay"
    /\ ret.studentA # ret.studentB
    /\ Cardinality(recordsBetween(ret.studentA, ret.studentB)) = 3
    /\ winsBetween(ret.studentB, ret.studentA, ret.studentB) = 2
    /\ ret.value = TRUE

\* C6: self-pairing is always ineligible: canPlay(a, a) is false for every
\* student and every history, so recordMatch(a, a) never appends a record.
C6_SelfPairingIneligible ==
    /\ ret.op = "canPlay" /\ ret.studentA = ret.studentB => ret.value = FALSE
    /\ \A a \in Ids : ~recordMatchAccepts(a, a, matchHistory)

\* C7: getEligibleOpponents(s, margin) returns exactly the roster members o
\* with o.id # s, |score(s) - score(o)| <= margin and canPlay(s, o): the
\* best-of-three fallback admits nobody canPlay rejects.
C7_EligibleExactly ==
    ret.op = "getEligibleOpponents" /\ hasStudent(studentsData, ret.studentId) =>
        LET s == findStudent(studentsData, ret.studentId)
            returned == {ret.value[i] : i \in 1..Len(ret.value)}
            expected == {studentsData[i] : i \in
                            {k \in 1..Len(studentsData) :
                                /\ studentsData[k].id # s.id
                                /\ Abs(s.score - studentsData[k].score) <= ret.margin
                                /\ canPlay(s.id, studentsData[k].id, matchHistory)}}
        IN  /\ returned = expected
            /\ Len(ret.value) = Cardinality(expected)

\* getEligibleOpponents has taken the fallback branch: a candidate within the
\* margin that canPlay rejects with exactly 3 records, left out of the result.
C7_Witness ==
    /\ ret.op = "getEligibleOpponents"
    /\ hasStudent(studentsData, ret.studentId)
    /\ \E i \in 1..Len(studentsData) :
        LET s == findStudent(studentsData, ret.studentId)
            o == studentsData[i]
        IN  /\ o.id # s.id
            /\ Abs(s.score - o.score) <= ret.margin
            /\ Cardinality(recordsBetween(s.id, o.id)) = 3
            /\ ~canPlay(s.id, o.id, matchHistory)
            /\ \A k \in 1..Len(ret.value) : ret.value[k].id # o.id
    /\ Len(ret.value) > 0

\* The order the specification gives the opponent finder: ascending score
\* difference, then ascending head-to-head count, then ascending name.
notAfter(a, b) ==
    \/ a.scoreDifference < b.scoreDifference
    \/ /\ a.scoreDifference = b.scoreDifference
       /\ \/ a.matchCount < b.matchCount
          \/ a.matchCount = b.matchCount /\ a.student.name <= b.student.name
\* The eligible opponents of s, each with its keys, in that order.
compareRanked(a, b) == IF a = b THEN 0 ELSE IF notAfter(a, b) THEN -1 ELSE 1
rankedOpponents(studentId, margin) ==
    LET s == findStudent(studentsData, studentId)
        eligible == IF ~hasStudent(studentsData, studentId) THEN <<>>
                   ELSE SelectSeq(studentsData, LAMBDA o :
                        /\ o.id # s.id
                        /\ Abs(s.score - o.score) <= margin
                        /\ canPlay(s.id, o.id, matchHistory))
        keyed == [i \in 1..Len(eligible) |->
                        [student |-> eligible[i],
                         matchCount |-> Cardinality(recordsBetween(s.id, eligible[i].id)),
                         scoreDifference |-> Abs(s.score - eligible[i].score)]]
    IN  stableSort(keyed,
                   [a \in 1..Len(keyed) |-> [b \in 1..Len(keyed) |->
                        compareRanked(keyed[a], keyed[b])]])

\* C8: the eligible opponents are ordered by ascending score difference, then
\* ascending head-to-head count, then ascending name; the best opponent is
\* the first of that order (null when it is empty) and the recommendations
\* are its first `limit` elements.
C8_RankedByNameLast ==
    /\ ret.op = "getEligibleOpponentsWithDetails" =>
            ret.value = rankedOpponents(ret.studentId, ret.margin)
    /\ ret.op = "getBestOpponentRecommendation" =>
            LET ranked == rankedOpponents(ret.studentId, ret.margin)
            IN  ret.value = IF Len(ranked) > 0 THEN ranked[1].student ELSE "null"
    /\ ret.op = "getOpponentRecommendations" =>
            LET ranked == rankedOpponents(ret.studentId, ret.margin)
            IN  ret.value = [i \in 1..(IF ret.limit < Len(ranked) THEN ret.limit
                                        ELSE Len(ranked)) |-> ranked[i].student]

\* ------------------------------------------------ claims on the generators
GenOps == {"getMatchRecommendations", "getOptimizedMatchRecommendations"}
idsOf(pairing) == {pairing.playerA.id, pairing.playerB.id}
pairedIds(round) == UNION {idsOf(round[i]) : i \in 1..Len(round)}
disjointPairings(round) ==
    /\ \A i \in 1..Len(round) : round[i].playerA.id # round[i].playerB.id
    /\ \A i, j \in 1..Len(round) : i < j => idsOf(round[i]) \cap idsOf(round[j]) = {}

\* C1: a round of getMatchRecommendations or getOptimizedMatchRecommendations
\* holds no student id in more than one pairing, and no pairing of a student
\* with itself, whatever the visiting order and whatever is recorded meanwhile.
C1_DisjointPairings ==
    /\ gen.pc # "idle" => disjointPairings(gen.recommendations)
    /\ ret.op \in GenOps => disjointPairings(ret.value)

\* A round of two pairings has been returned, a match having been recorded
\* while it was generated.
C1_Witness ==
    /\ ret.op \in GenOps
    /\ Len(ret.value) = 2
    /\ ~ret.quiet

\* C2: every pairing getMatchRecommendations returns has scoreDifference =
\* |playerA.score - playerB.score| and scoreDifference <= margin, also when
\* the pool is an older snapshot of the scores than the roster fetched.
C2_WithinMargin ==
    ret.op = "getMatchRecommendations" =>
        \A i \in 1..Len(ret.value) :
            /\ ret.value[i].scoreDifference
                    = Abs(ret.value[i].playerA.score - ret.value[i].playerB.score)
            /\ ret.value[i].scoreDifference <= ret.margin

\* C3: when a pairing is pushed, canPlay holds for its two players on the
\* match history as it is at that moment, however recordMatch interleaves.
C3_CanPlayAtEmission ==
    [][(gen.pc = "pair" /\ Len(gen'.recommendations) > Len(gen.recommendations)) =>
            LET pairing == gen'.recommendations[Len(gen'.recommendations)]
            IN  canPlay(pairing.playerA.id, pairing.playerB.id, matchHistory')]_vars

\* A pairing has been pushed in a generation during which a match was recorded.
C3_Witness ==
    /\ gen.pc = "loop"
    /\ ~gen.quiet
    /\ rec.calls > 0
    /\ Len(gen.recommendations) > 0

\* Two students of the roster are eligible opponents of each other.
mutuallyEligible(a, b, margin) ==
    /\ a.id # b.id
    /\ Abs(a.score - b.score) <= margin
    /\ canPlay(a.id, b.id, matchHistory)

\* C9: the round is maximal: with the pool equal to the roster and nothing
\* recorded during generation, no two students left unpaired are eligible
\* opponents of each other.
C9_Maximal ==
    ret.op \in GenOps /\ ret.quiet =>
        \A i, j \in 1..Len(studentsData) :
            LET a == studentsData[i]
                b == studentsData[j]
            IN  (a.id \notin pairedIds(ret.value) /\ b.id \notin pairedIds(ret.value))
                    => ~mutuallyEligible(a, b, ret.margin)

\* An undisturbed round of one pairing has left two students unpaired.
C9_Witness ==
    /\ ret.op \in GenOps
    /\ ret.quiet
    /\ ret.students = studentsData
    /\ Len(ret.value) = 1
    /\ Cardinality(pairedIds(ret.value)) + 2 = Len(studentsData)

\* The round getOptimizedMatchRecommendations owes to a pool, the roster, the
\* history and the margin: the students by descending score (ties in pool
\* order), each unused one paired with the closest unused eligible opponent
\* (ties in roster order).
byDescendingScore(pool) ==
    LET n == Len(pool)
        perm == CHOOSE f \in [1..n -> 1..n] :
                    /\ \A i, j \in 1..n : i # j => f[i] # f[j]
                    /\ \A i, j \in 1..n : i < j =>
                        \/ pool[f[i]].score > pool[f[j]].score
                        \/ pool[f[i]].score = pool[f[j]].score /\ f[i] < f[j]
    IN  [i \in 1..n |-> pool[perm[i]]]

closestOpponent(student, candidates) ==
    candidates[CHOOSE k \in 1..Len(candidates) :
        /\ \A m \in 1..Len(candidates) :
                Abs(student.score - candidates[k].score) <= Abs(student.score - candidates[m].score)
        /\ \A m \in 1..(k - 1) :
                Abs(student.score - candidates[m].score) > Abs(student.score - candidates[k].score)]

RECURSIVE roundFrom(_, _, _, _, _)
roundFrom(order, i, used, margin, round) ==
    IF i > Len(order) THEN round
    ELSE LET student == order[i]
             target == findStudent(studentsData, student.id)
             candidates == SelectSeq(studentsData, LAMBDA o :
                                o.id \notin used /\ mutuallyEligible(target, o, margin))
         IN  IF student.id \in used \/ Len(candidates) = 0
             THEN roundFrom(order, i + 1, used, margin, round)
             ELSE LET opponent == closestOpponent(student, candidates)
                  IN  roundFrom(order, i + 1, used \cup {student.id, opponent.id}, margin,
                                Append(round,
                                       [playerA |-> student, playerB |-> opponent,
                                        scoreDifference |-> Abs(student.score - opponent.score)]))

optimizedRound(pool, margin) == roundFrom(byDescendingScore(pool), 1, {}, margin, <<>>)

\* C10: getOptimizedMatchRecommendations is deterministic, its round being a
\* function of the pool sequence, the roster, the history and the margin, and
\* it visits the students in non-increasing score order.
C10_OptimizedDeterministic ==
    ret.op = "getOptimizedMatchRecommendations" =>
        /\ \A i, j \in 1..Len(ret.order) : i < j => ret.order[i].score >= ret.order[j].score
        /\ ret.quiet => ret.value = optimizedRound(ret.students, ret.margin)

\* An undisturbed optimized round of two pairings over students whose scores differ.
C10_Witness ==
    /\ ret.op = "getOptimizedMatchRecommendations"
    /\ ret.quiet
    /\ Len(ret.value) = 2
    /\ \E i, j \in 1..Len(ret.students) : ret.students[i].score > ret.students[j].score

\* ------------------------------------------------ claims on the statistics
\* The student of the roster with id a has an eligible opponent in the roster.
hasEligibleOpponent(a, margin) ==
    /\ hasStudent(studentsData, a)
    /\ \E j \in 1..Len(studentsData) :
            mutuallyEligible(findStudent(studentsData, a), studentsData[j], margin)

directedPairs(pool, margin) ==
    {<<pool[i].id, studentsData[j].id>> : i \in 1..Len(pool), j \in 1..Len(studentsData)}
        \cap {pair \in (Ids \X Ids) :
                mutuallyEligible(findStudent(studentsData, pair[1]),
                                 findStudent(studentsData, pair[2]), margin)}
unorderedPairs(pool, margin) == {{pair[1], pair[2]} : pair \in directedPairs(pool, margin)}
zeroAverage == [num |-> 0, den |-> 1]

\* What C12 says of every field but the doubling.
statsCounts ==
    /\ ret.value.totalStudents = Len(ret.students)
    /\ IF Len(ret.students) < 2
       THEN /\ ret.value.studentsWithOpponents = 0
            /\ ret.value.possibleMatches = 0
            /\ ret.value.averageScoreDifference = zeroAverage
       ELSE /\ ret.value.studentsWithOpponents =
                    Cardinality({i \in 1..Len(ret.students) :
                                    hasEligibleOpponent(ret.students[i].id, ret.margin)})
            /\ ret.value.possibleMatches = Cardinality(directedPairs(ret.students, ret.margin))

\* C12 as stated: getMatchRecommendationStats returns totalStudents = pool
\* size, studentsWithOpponents = the students with an eligible opponent,
\* possibleMatches = the sum of the eligible-opponent counts, which is twice
\* the number of unordered eligible pairs; below 2 students all but
\* totalStudents is 0.
C12_StatsCounts ==
    ret.op = "getMatchRecommendationStats" =>
        /\ statsCounts
        /\ Len(ret.students) >= 2 =>
                ret.value.possibleMatches
                    = 2 * Cardinality(unorderedPairs(ret.students, ret.margin))

\* C12 as amended: the doubling holds when the pool holds every student of
\* the roster.
C12_StatsCountsWholeRoster ==
    ret.op = "getMatchRecommendationStats" =>
        /\ statsCounts
        /\ (Len(ret.students) >= 2 /\ Len(ret.students) = Len(studentsData)) =>
                ret.value.possibleMatches
                    = 2 * Cardinality(unorderedPairs(ret.students, ret.margin))

\* Statistics over the whole roster: one eligible pair, one student without.
C12_Witness ==
    /\ ret.op = "getMatchRecommendationStats"
    /\ Len(ret.students) = Len(studentsData)
    /\ ret.value.totalStudents = 3
    /\ ret.value.studentsWithOpponents = 2
    /\ ret.value.possibleMatches = 2

\* ------------------------------------------------- claims on error handling
\* A call that fails carries an error instead of a value.
failed == "error" \in DOMAIN ret
MarginOps == {"getEligibleOpponents", "getMatchRecommendations",
              "getOptimizedMatchRecommendations", "hasPossibleMatchRecommendations",
              "getMatchRecommendationStats"}
SingleStudentOps == {"getEligibleOpponents", "getEligibleOpponentsWithDetails",
                     "getBestOpponentRecommendation"}

\* C17: a negative margin passed to getEligibleOpponents, to a generator, to
\* hasPossibleMatchRecommendations or to getMatchRecommendationStats fails
\* with an error instead of returning an empty or false result.
C17_NegativeMarginFails ==
    (ret.op \in MarginOps /\ ret.margin < 0) => failed

\* C18 as stated: a single-student query for an id that is not in the roster
\* fails with an error instead of returning an empty sequence or null.
C18_MissingStudentFails ==
    (ret.op \in SingleStudentOps /\ ~hasStudent(studentsData, ret.studentId)) => failed

\* C18 as amended: such a query does not fail: getEligibleOpponents and
\* getEligibleOpponentsWithDetails return the empty sequence and
\* getBestOpponentRecommendation returns null.
C18_MissingStudentEmpty ==
    (ret.op \in SingleStudentOps /\ ~hasStudent(studentsData, ret.studentId)) =>
        /\ ~failed
        /\ ret.value = IF ret.op = "getBestOpponentRecommendation" THEN "null" ELSE <<>>

\* getEligibleOpponents has answered for an id that is not in the roster,
\* with a margin under which the students of the roster are eligible.
C18_Witness ==
    /\ ret.op = "getEligibleOpponents"
    /\ ret.studentId = MissingId
    /\ ret.margin = UiMaxMargin
    /\ Len(matchHistory) > 0

\* ------------------------------------------------ claims on the leaderboard
\* The records of the history a student takes part in, those it won and
\* those it lost.
recordsOf(x) ==
    {i \in 1..Len(matchHistory) : x \in {matchHistory[i].playerA, matchHistory[i].playerB}}
wonBy(x) == {i \in recordsOf(x) : matchHistory[i].winner = x}
lostBy(x) == {i \in recordsOf(x) : matchHistory[i].loser = x}

\* The entry e is not after the entry f under: descending score, descending
\* win rate, descending total matches, ascending name.  The win rates
\* wins / total of the two are compared by their cross products.
rateOver(x) ==
    IF recordsOf(x) = {} THEN quotient(0, 1)
    ELSE quotient(Cardinality(wonBy(x)) * 100, Cardinality(recordsOf(x)))
notAfterOnBoard(e, f) ==
    LET rates == quotientDiff(rateOver(e.student.id), rateOver(f.student.id))
        totals == Cardinality(recordsOf(e.student.id)) - Cardinality(recordsOf(f.student.id))
    IN  \/ e.student.score > f.student.score
        \/ /\ e.student.score = f.student.score
           /\ \/ rates > 0
              \/ /\ rates = 0
                 /\ \/ totals > 0
                    \/ totals = 0 /\ e.student.name <= f.student.name

\* C13: getLeaderboard returns one entry per student of the pool, and of two
\* adjacent entries the earlier is not after the later under descending
\* score, descending win rate, descending total matches, ascending name.
C13_LeaderboardOrdered ==
    ret.op = "getLeaderboard" =>
        /\ Len(ret.value) = Len(ret.students)
        /\ \A i \in 1..Len(ret.students) :
                Cardinality({k \in 1..Len(ret.value) : ret.value[k].student = ret.students[i]}) = 1
        /\ \A k \in 1..(Len(ret.value) - 1) : notAfterOnBoard(ret.value[k], ret.value[k + 1])

\* Two adjacent entries of the same score and win rate, the earlier with more
\* matches and the later name.
C13_Witness ==
    /\ ret.op = "getLeaderboard"
    /\ \E k \in 1..(Len(ret.value) - 1) :
        LET e == ret.value[k]
            f == ret.value[k + 1]
        IN  /\ e.student.score = f.student.score
            /\ quotientDiff(e.winRate, f.winRate) = 0
            /\ e.totalMatches > f.totalMatches
            /\ e.student.name > f.student.name

\* The orderings of a pool.
orderingsOf(students) ==
    {order \in [1..Len(students) -> {students[i] : i \in 1..Len(students)}] :
        \A i, j \in 1..Len(students) : i # j => order[i] # order[j]}

\* C14: the leaderboard is determined by the set of students and the history:
\* no two students sharing an id, getLeaderboard returns the same order for
\* every ordering of the pool.
C14_LeaderboardOrderFree ==
    ret.op = "getLeaderboard" =>
        \A order \in orderingsOf(ret.students) :
            getLeaderboard(order, matchHistory) = ret.value

\* C14 as amended: no two students of the pool sharing a name, getLeaderboard
\* returns the same order for every ordering of the pool.
C14_LeaderboardOrderFreeByName ==
    (/\ ret.op = "getLeaderboard"
     /\ \A i, j \in 1..Len(ret.students) :
            i # j => ret.students[i].name # ret.students[j].name) =>
        \A order \in orderingsOf(ret.students) :
            getLeaderboard(order, matchHistory) = ret.value

\* A leaderboard of three students of different names, two of them equal in
\* score, win rate and total matches, returned in another order than the pool's.
C14_Witness ==
    /\ ret.op = "getLeaderboard"
    /\ Len(ret.students) = 3
    /\ \A i, j \in 1..3 : i # j => ret.students[i].name # ret.students[j].name
    /\ \E k \in 1..2 :
            /\ ret.value[k].student.score = ret.value[k + 1].student.score
            /\ quotientDiff(ret.value[k].winRate, ret.value[k + 1].winRate) = 0
            /\ ret.value[k].totalMatches = ret.value[k + 1].totalMatches
    /\ \E i \in 1..3 : ret.value[i].student # ret.students[i]

\* C15: getStudentRank(id, pool, history) is k >= 1 exactly when the student
\* with that id is the k-th entry of getLeaderboard(pool, history), and -1
\* exactly when no student of the pool has that id.
C15_RankIsPosition ==
    ret.op = "getStudentRank" =>
        LET leaderboard == getLeaderboard(ret.students, matchHistory)
        IN  IF \E i \in 1..Len(ret.students) : ret.students[i].id = ret.studentId
            THEN /\ ret.value \in 1..Len(leaderboard)
                 /\ leaderboard[ret.value].student.id = ret.studentId
            ELSE ret.value = -1

\* The rank of the last of three entries has been asked for, after a match.
C15_Witness ==
    /\ ret.op = "getStudentRank"
    /\ Len(ret.students) = 3
    /\ ret.value = 3
    /\ Len(matchHistory) > 0

sameIdAs(i) == {j \in 1..Len(matchHistory) : matchHistory[j].id = matchHistory[i].id}

\* C19: match recording is atomic with respect to scores.  From a roster of
\* scores 0 and an empty history, once every recordMatch call made so far,
\* overlapping or not, has returned true, every competitor's score is the
\* number of those matches it won minus the number it lost, and each of those
\* matches is in the history exactly once.
C19_RecordingAtomic ==
    rec.pc = "idle" =>
        /\ \A i \in 1..Len(studentsData) :
              studentsData[i].score =
                  Cardinality(wonBy(studentsData[i].id))
                      - Cardinality(lostBy(studentsData[i].id))
        /\ \A i \in 1..Len(matchHistory) : sameIdAs(i) = {i}

\* ------------------------------------------------------------------- C20
\* The record a step appends to the history.
appended == matchHistory'[Len(matchHistory')]

\* A step appends a record only when canPlay held for its pair on the history
\* before the step, and a recordMatch that returns false changes neither the
\* history nor the scores.
guardedAppend ==
    /\ Len(matchHistory') > Len(matchHistory) =>
          /\ matchHistory' = Append(matchHistory, appended)
          /\ canPlay(appended.playerA, appended.playerB, matchHistory)
    /\ (ret' # ret /\ ret' = [op |-> "recordMatch", value |-> FALSE]) =>
          UNCHANGED <<matchHistory, studentsData>>

atMostFour ==
    \A a, b \in Ids : a # b => Cardinality(recordsBetween(a, b)) <= 4

\* C20: the repeat-play rule is enforced at write time.  recordMatch appends a
\* record only if canPlay holds for the pair immediately before the append,
\* and otherwise returns false leaving history and scores unchanged; so in
\* every state reached from an empty history by recordMatch, deleteMatch,
\* deleteMatchesByStudent and clearMatchHistory, no two competitors have more
\* than 4 records between them.
C20_RepeatRuleAtWrite == [][guardedAppend]_vars /\ []atMostFour

\* A pair is at 4 records again after an earlier record was deleted, and a
\* further recordMatch has just returned false.
C20_Witness ==
    /\ ret = [op |-> "recordMatch", value |-> FALSE]
    /\ now > Len(matchHistory) + 1
    /\ \E a, b \in Ids : a # b /\ Cardinality(recordsBetween(a, b)) = 4

\* ------------------------------------------------------------------- C21
\* The places of the history whose players are {a, b}, in history order.
RECURSIVE ascending(_)
ascending(places) ==
    IF places = {} THEN <<>>
    ELSE LET first == CHOOSE i \in places : \A j \in places : i <= j
         IN  <<first>> \o ascending(places \ {first})

\* The value is exactly the records between the two players: as many, each
\* once, none else.
exactlyBetween(value, a, b) ==
    /\ Len(value) = Cardinality(recordsBetween(a, b))
    /\ \A i \in recordsBetween(a, b) :
          Cardinality({k \in 1..Len(value) : value[k].id = matchHistory[i].id}) = 1
    /\ \A k \in 1..Len(value) :
          \E i \in recordsBetween(a, b) : value[k] = matchHistory[i]

\* C21 as stated: getHeadToHead(a, b) returns exactly the records between a
\* and b, most recent first, and the same records for (b, a).
C21_HeadToHeadNewestFirst ==
    ret.op = "getHeadToHead" =>
        /\ exactlyBetween(ret.value, ret.studentA, ret.studentB)
        /\ \A k \in 1..(Len(ret.value) - 1) : ret.value[k].date >= ret.value[k + 1].date
        /\ ret.value = getHeadToHead(ret.studentB, ret.studentA, matchHistory)

\* C21, amended: getHeadToHead(a, b) returns exactly the records between a
\* and b in the order of the history, which is oldest first, and the same
\* records in the same order for (b, a).
C21_HeadToHeadInHistoryOrder ==
    ret.op = "getHeadToHead" =>
        /\ exactlyBetween(ret.value, ret.studentA, ret.studentB)
        /\ ret.value = [k \in 1..Len(ret.value) |->
                matchHistory[ascending(recordsBetween(ret.studentA, ret.studentB))[k]]]
        /\ \A k \in 1..(Len(ret.value) - 1) : ret.value[k].date <= ret.value[k + 1].date
        /\ ret.value = getHeadToHead(ret.studentB, ret.studentA, matchHistory)

\* A head-to-head of at least two records, among records of other pairs.
C21_Witness ==
    /\ ret.op = "getHeadToHead"
    /\ Len(ret.value) >= 2
    /\ Len(matchHistory) > Len(ret.value)

\* ------------------------------------------------------------------- C22
ReadOnlyOps ==
    {"canPlay", "getHeadToHead", "getEligibleOpponents", "getEligibleOpponentsWithDetails",
     "getMatchRecommendations", "getMatchRecommendationsWithDetails",
     "getOptimizedMatchRecommendations", "hasPossibleMatchRecommendations",
     "getMatchRecommendationStats", "getLeaderboard"}

\* A step of a read-only query: a step of a running generator, or the step in
\* which a read-only query returns.
readOnlyStep == gen' # gen \/ (ret' # ret /\ ret'.op \in ReadOnlyOps)

\* The pool array as the step leaves it is the array that was passed in.
poolKept(r) == "pool" \in DOMAIN r => r.pool = r.students

\* C22: the read-only queries leave shared state unchanged.  No step of
\* canPlay, getHeadToHead, getEligibleOpponents, getEligibleOpponentsWithDetails,
\* the three generators, hasPossibleMatchRecommendations,
\* getMatchRecommendationStats or getLeaderboard changes the match history
\* (contents or order) or the roster, and the pool array passed in has the
\* same contents in the same order afterwards.
C22_ReadOnly ==
    [][readOnlyStep =>
            /\ matchHistory' = matchHistory
            /\ studentsData' = studentsData
            /\ poolKept(gen')
            /\ poolKept(ret')]_vars

\* A generator has returned a round it built in another order than the
\* pool's, over a history that is not empty.
C22_Witness ==
    /\ ret.op = "getOptimizedMatchRecommendations"
    /\ ret.order # ret.students
    /\ ret.pool = ret.students
    /\ Len(ret.value) > 0
    /\ Len(matchHistory) > 0

\* ------------------------------------------------------------------- C23
\* The Opponent Finder ordering of the candidates of student: a is before b
\* by ascending score difference, then ascending head-to-head count, then
\* ascending name.
finderBefore(student, a, b) ==
    LET diffA == Abs(student.score - a.score)
        diffB == Abs(student.score - b.score)
        countA == Cardinality(recordsBetween(student.id, a.id))
        countB == Cardinality(recordsBetween(student.id, b.id))
    IN  \/ diffA < diffB
        \/ diffA = diffB /\ countA < countB
        \/ diffA = diffB /\ countA = countB /\ a.name < b.name

\* C23: in the greedy loop of getMatchRecommendations, the opponent paired
\* with a competitor is the first of its eligible opponents not yet used in
\* the Opponent Finder ordering: every other unused eligible opponent comes
\* after it.
C23_GreedyPicksFinderFirst ==
    [][(/\ gen.pc = "pair"
        /\ gen.mode = "getMatchRecommendations"
        /\ Len(gen'.recommendations) > Len(gen.recommendations)) =>
            LET student == gen.order[gen.i]
                picked == gen'.recommendations[Len(gen'.recommendations)].playerB
            IN  \A k \in 1..Len(gen.eligibleOpponents) :
                    LET other == gen.eligibleOpponents[k]
                    IN  (other.id \notin gen.usedStudents /\ other.id # picked.id)
                            => finderBefore(student, picked, other)]_vars

\* ------------------------------------------------------------------- C24
\* The step is a page load that set the store to the fetched list.
loaded == ret' # ret /\ ret'.op = "loadMatchesFromServer"

\* The step appends a newly recorded match to the store.
recorded ==
    /\ Len(matchHistory') = Len(matchHistory) + 1
    /\ matchHistory' = Append(matchHistory, appended)
    /\ appended.id = now

\* C24: loading the match history from the server writes nothing back.  A
\* step in which loadMatchesFromServer sets the store leaves the server's log
\* as it was, whatever list was fetched, and the server's log grows only in
\* a step that records a new match.
C24_LoadDoesNotPost ==
    [][/\ loaded => matchesData' = matchesData
       /\ Len(matchesData') > Len(matchesData) => recorded]_vars

\* ------------------------------------------------------------------- C25
\* The score of x in a roster.
scoreIn(students, x) == findStudent(students, x).score

\* The scores of the step differ by `change` for w, by -change for l, and
\* not at all for the others.
scoresMoved(w, l, change) ==
    \A x \in Ids :
        scoreIn(studentsData', x) =
            scoreIn(studentsData, x)
                + (IF x = w THEN change ELSE IF x = l THEN -change ELSE 0)

\* The step is a recordMatch that returns true.
recordedTrue ==
    /\ ret' # ret
    /\ ret' = [op |-> "recordMatch", value |-> TRUE]

\* The step is a deleteMatch, returning true, of the record the latest
\* recordMatch created: the last of the history, no match having been
\* recorded, loaded or saved since.
deletedLatest ==
    /\ ret' # ret
    /\ ret'.op = "deleteMatch"
    /\ ret'.value
    /\ Len(matchHistory) > 0
    /\ matchHistory[Len(matchHistory)].id = ret'.matchId
    /\ ret'.matchId = now - 1

\* C25: deleteMatch reverts a recorded match.  recordMatch(w, l) returning
\* true appends one record and moves w's score by +1 and l's by -1;
\* deleteMatch of that record, with nothing in between, takes the record off
\* again and moves w's score by -1 and l's by +1, so history and scores are
\* as before recordMatch.  deleteMatch of an id that is not in the history
\* returns false and changes nothing; of an id that is, it returns true.
C25_DeleteReverts ==
    [][/\ recordedTrue =>
            /\ matchHistory' = Append(matchHistory, appended)
            /\ scoresMoved(appended.winner, appended.loser, 1)
       /\ deletedLatest =>
            LET created == matchHistory[Len(matchHistory)]
            IN  /\ matchHistory = Append(matchHistory', created)
                /\ scoresMoved(created.winner, created.loser, -1)
       /\ (ret' # ret /\ ret'.op = "deleteMatch") =>
            /\ ret'.value = hasMatch(matchHistory, ret'.matchId)
            /\ ~ret'.value => UNCHANGED <<matchHistory, studentsData>>]_vars

\* deleteMatch has just returned true for the record of the latest clock
\* value, and records of earlier matches remain; the scores are those the
\* remaining history gives.
C25_Witness ==
    /\ ret.op = "deleteMatch"
    /\ ret.value
    /\ ret.matchId = now - 2
    /\ Len(matchHistory) > 0
    /\ \A i \in 1..Len(matchHistory) : matchHistory[i].id < ret.matchId
    /\ \A x \in Ids : scoreIn(studentsData, x) = Cardinality(wonBy(x)) - Cardinality(lostBy(x))

\* ------------------------------------------------------------------- C26
\* The records of the history between x and y that y won.
wonAgainst(y, x) == {i \in recordsBetween(x, y) : matchHistory[i].winner = y}

\* C26: after deleteMatchesByStudent(x) has returned true, the history holds
\* no record involving x, and the score of every other competitor is lower by
\* 1 for each deleted match it won against x and higher by 1 for each deleted
\* match it lost to x, however many matches it had against x.
C26_DeleteByStudentReverts ==
    [][(ret' # ret /\ ret'.op = "deleteMatchesByStudent" /\ ret'.value) =>
            LET x == ret'.studentId
            IN  /\ \A i \in 1..Len(matchHistory') : ~involves(matchHistory'[i], x)
                /\ \A y \in Ids \ {x} :
                      scoreIn(studentsData', y) =
                          scoreIn(studentsData, y)
                              - Cardinality(wonAgainst(y, x))
                              + Cardinality(wonAgainst(x, y))]_vars

\* ------------------------------------------------------------------- C27
\* C27: with the pool equal to the roster and no change to history or scores
\* during the generation, getMatchRecommendations returns a non-empty round
\* if and only if hasPossibleMatchRecommendations is true for the same pool
\* and margin, whatever the visiting order the shuffle gave.
C27_RoundIffPossible ==
    (/\ ret.op = "getMatchRecommendations"
     /\ ret.quiet
     /\ ret.students = studentsData) =>
        (Len(ret.value) > 0
            <=> hasPossibleMatchRecommendations(ret.students, ret.margin,
                                                studentsData, matchHistory))

\* An empty round over a roster of three with matches played: no competitor
\* has an eligible opponent.
C27_Witness ==
    /\ ret.op = "getMatchRecommendations"
    /\ ret.quiet
    /\ ret.students = studentsData
    /\ Len(ret.order) = 3
    /\ Len(matchHistory) > 0
    /\ ret.value = <<>>
    /\ ~hasPossibleMatchRecommendations(ret.students, ret.margin, studentsData, matchHistory)

\* ------------------------------------------------------------------- C28
\* C28: getOptimizedMatchRecommendations applies the same greedy loop as
\* getMatchRecommendations.  A generation of getOptimizedMatchRecommendations
\* that nothing disturbed returns what its loop run whole returns; and for a
\* pool already in descending score order and a shuffle that moved nothing,
\* getMatchRecommendations returns that same sequence of pairings for the
\* same roster, history and margin.
C28_SameGreedyLoop ==
    /\ (ret.op = "getOptimizedMatchRecommendations" /\ ret.quiet) =>
            ret.value = getOptimizedMatchRecommendations(ret.students, ret.margin,
                                                         studentsData, matchHistory)
    /\ (/\ ret.op = "getMatchRecommendations"
        /\ ret.quiet
        /\ ret.order = ret.students
        /\ sortedStudents(ret.students) = ret.students) =>
            ret.value = getOptimizedMatchRecommendations(ret.students, ret.margin,
                                                         studentsData, matchHistory)

\* getMatchRecommendations has returned a pairing for a pool in descending
\* score order that the shuffle left as it was, the first competitor having
\* had two opponents at the closest score.
C28_Witness ==
    /\ ret.op = "getMatchRecommendations"
    /\ ret.quiet
    /\ ret.order = ret.students
    /\ sortedStudents(ret.students) = ret.students
    /\ Len(matchHistory) > 0
    /\ Len(ret.value) = 1
    /\ ret.value[1].playerA.id = ret.order[1].id
    /\ Cardinality({k \in 1..Len(ret.students) :
            /\ ret.students[k].id # ret.order[1].id
            /\ isEligibleOpponent(ret.order[1], ret.students[k], ret.margin, matchHistory)
            /\ Abs(ret.students[k].score - ret.order[1].score)
                    = ret.value[1].scoreDifference}) = 2

\* ------------------------------------------- claims on the two statistics paths

pairing(match) ==
    [playerA |-> match.playerA, playerB |-> match.playerB, winner |-> match.winner]

\* The number of records of `matches` with the given pairing.
timesIn(matches, p) == Len(SelectSeq(matches, LAMBDA match : pairing(match) = p))

\* C30: the server's match log stays in step with the client store.  After
\* loadMatchesFromServer, recordMatch, deleteMatch, deleteMatchesByStudent or
\* clearMatchHistory has completed, the server holds the same multiset of
\* matches (by playerA, playerB and winner) as the store: each recorded match
\* once, each deleted match not at all.
C30_ServerInStep ==
    \A i \in Ids, j \in Ids :
        LET p == [playerA |-> i, playerB |-> j, winner |-> i]
        IN  timesIn(matchesData, p) = timesIn(matchHistory, p)

=============================================================================
